---- MODULE Spec2Model ----
(***************************************************************************)
(* veloce: an in-process key-value cache with per-entry expiration, an     *)
(* optional eviction callback and a background garbage collector          *)
(* (sweeper).  The model follows the single-package implementation (type   *)
(* cache, garbageCollector) and the increment family of the same package.  *)
(*                                                                         *)
(* Every operation is split at its lock operations: a step that acquires   *)
(* c.mu, the steps made while holding it, and the steps made after         *)
(* releasing it.  time.Now() is the global clock `now`, advanced by Tick.  *)
(*                                                                         *)
(* c.mu is a sync.RWMutex: one writer or any number of readers; the order  *)
(* in which waiting goroutines obtain it is left open.  The finalizer set  *)
(* by newCacheWithGarbageCollector is not part of the model: stopping the  *)
(* collector is the explicit call of stopGarbageCollector.                 *)
(***************************************************************************)
EXTENDS Integers, FiniteSets, Sequences, Bags, TLC

\* ------------------------------------------------------------------ bounds
MaxTime == 3
MaxRemovals == 2
MaxOps == 3

\* -------------------------------------------------------- program constants
NoExpiration == -1
DefaultExpiration == 0

\* ------------------------------------------------------------ participants
Threads == {"t1", "t2", "t3"}
GC == "gc"
Procs == Threads \cup {GC}
NoProc == "none"

Keys == {"k1", "k2"}
NoKey == "-"

\* A stored Object is an interface{} value: its dynamic type and its value.
\* Strings are (kind "string", index of the text).
Nil == [kind |-> "nil", val |-> 0]
Str(i) == [kind |-> "string", val |-> i]
Num(k, v) == [kind |-> k, val |-> v]

\* The registered eviction callback: nil or one of two caller functions.
NilFunc == "nil"
Funcs == {"f1", "f2"}

VARIABLES
    now,                \* time.Now().UnixNano()
    defaultExpiration,  \* cache.defaultExpiration
    items,              \* cache.items: a function from the present keys to Items
    mu,                 \* cache.mu: [w: the writer or NoProc, r: the set of readers]
    onEvicted,          \* cache.onEvicted
    pc,                 \* where each goroutine stands
    loc,                \* each goroutine's arguments, locals and result
    stamp,              \* history: per key, when and with which ttl it was last written
    owed,               \* history: bag of (key, object) removed with a callback registered, not yet notified
    misfire,            \* history: the callback was called with a pair that was not owed
    nRemoved,           \* history: entries removed by delete/DeleteExpired with a callback registered
    nCalls,             \* history: callback invocations
    ops                 \* history: increments started (bounds the increment runs)

vars == <<now, defaultExpiration, items, mu, onEvicted, pc, loc, stamp, owed,
          misfire, nRemoved, nCalls, ops>>

hist == <<stamp, owed, misfire, nRemoved, nCalls, ops>>
evhist == <<owed, misfire, nRemoved, nCalls>>

\* ------------------------------------------------------------------- data
Item(object, expiration) == [Object |-> object, Expiration |-> expiration]

NoRes == [err |-> "-", found |-> FALSE, obj |-> Nil, exp |-> 0]
Res(err, found, obj, exp) == [err |-> err, found |-> found, obj |-> obj, exp |-> exp]

\* cb is history: the callback that was registered when ev was collected
Blank == [key |-> NoKey, obj |-> Nil, dur |-> 0, t0 |-> 0, ev |-> {}, cb |-> NilFunc,
          op |-> "-", res |-> NoRes]

NoStamp == [set |-> FALSE, t |-> 0, d |-> 0]
Stamp(t, d) == [set |-> TRUE, t |-> t, d |-> d]

Pair(k, o) == [key |-> k, obj |-> o]

\* a nil callback was called: the panic has ended the process
Crashed == \E p \in Procs : pc[p] = "panicked"

\* Item.Expired
Expired(item, t) ==
    IF item.Expiration = 0 THEN FALSE ELSE t > item.Expiration

\* an expiration computed from the argument alone, without the default
ExpirationIgnoringDefault(duration, t) ==
    IF duration > 0 THEN t + duration ELSE 0

\* the expiration computed by Set and set from the duration argument
Expiration(duration, t) ==
    LET d == IF duration = DefaultExpiration THEN defaultExpiration ELSE duration
    IN  IF d > 0 THEN t + d ELSE 0

\* c.items[key] = Item{...}
set(its, key, value, expiration) ==
    [k \in DOMAIN its \cup {key} |->
        IF k = key THEN Item(value, expiration) ELSE its[k]]

\* a lookup that finds every key of the map, expired or not
getIgnoringExpiry(its, key, t) ==
    IF key \notin DOMAIN its THEN [obj |-> Nil, found |-> FALSE]
    ELSE [obj |-> its[key].Object, found |-> TRUE]

\* c.get: the lookup shared by Add and Replace
get(its, key, t) ==
    IF key \notin DOMAIN its THEN [obj |-> Nil, found |-> FALSE]
    ELSE IF its[key].Expiration > 0 /\ t > its[key].Expiration
         THEN [obj |-> Nil, found |-> FALSE]
         ELSE [obj |-> its[key].Object, found |-> TRUE]

\* a Get that takes the entry for expired from the instant of its expiration on
GetExpiringEarly(its, key, t) ==
    IF key \notin DOMAIN its THEN Res("nil", FALSE, Nil, 0)
    ELSE IF its[key].Expiration > 0 /\ t >= its[key].Expiration
         THEN Res("nil", FALSE, Nil, 0)
         ELSE Res("nil", TRUE, its[key].Object, 0)

\* the body of Get between RLock and RUnlock
Get(its, key, t) ==
    IF key \notin DOMAIN its THEN Res("nil", FALSE, Nil, 0)
    ELSE IF its[key].Expiration > 0 /\ t > its[key].Expiration
         THEN Res("nil", FALSE, Nil, 0)
         ELSE Res("nil", TRUE, its[key].Object, 0)

\* a delete that reports an eviction without looking whether the key was there
deleteReportingMisses(its, cb, key) ==
    [items |-> [k \in DOMAIN its \ {key} |-> its[k]],
     obj |-> IF key \in DOMAIN its THEN its[key].Object ELSE Nil,
     evicted |-> cb # NilFunc]

\* a delete that leaves an expired entry to the collector
deleteSkippingExpired(its, cb, key) ==
    IF key \in DOMAIN its /\ its[key].Expiration > 0 /\ now > its[key].Expiration
    THEN [items |-> its, obj |-> Nil, evicted |-> FALSE]
    ELSE [items |-> [k \in DOMAIN its \ {key} |-> its[k]],
          obj |-> IF cb # NilFunc /\ key \in DOMAIN its THEN its[key].Object ELSE Nil,
          evicted |-> cb # NilFunc /\ key \in DOMAIN its]

\* c.delete: removes the key; reports the old object only with a callback registered
delete(its, cb, key) ==
    LET rest == [k \in DOMAIN its \ {key} |-> its[k]]
    IN  IF cb # NilFunc /\ key \in DOMAIN its
        THEN [items |-> rest, obj |-> its[key].Object, evicted |-> TRUE]
        ELSE [items |-> rest, obj |-> Nil, evicted |-> FALSE]

\* a purge that leaves out the test Expiration > 0
ExpiredKeysUnguarded(its, t) ==
    {k \in DOMAIN its : t > its[k].Expiration}

\* a purge that removes every entry that can expire, expired or not
ExpiredKeysEager(its, t) ==
    {k \in DOMAIN its : its[k].Expiration > 0}

\* a purge that also removes the entries expiring at the timestamp
ExpiredKeysAtDeadline(its, t) ==
    {k \in DOMAIN its : its[k].Expiration > 0 /\ t >= its[k].Expiration}

\* the keys DeleteExpired removes, against the timestamp it read before locking
ExpiredKeys(its, t) ==
    {k \in DOMAIN its : its[k].Expiration > 0 /\ t > its[k].Expiration}

\* ------------------------------------------------------------------- lock
Unlocked == [w |-> NoProc, r |-> {}]
CanLock == mu.w = NoProc /\ mu.r = {}
\* an RLock that does not wait for the writer
CanRLockBesideWriter == mu.r = mu.r

CanRLock == mu.w = NoProc

\* where a goroutine rests between operations
Home(p) == IF p = GC THEN "select" ELSE "idle"

\* ------------------------------------------------------------ construction
\* newCache: a zero default duration is stored as -1
newCache(duration) == IF duration = 0 THEN -1 ELSE duration

\* a construction that starts the collector whatever the interval
InitWithAlwaysSweeping(duration, cleanUpInterval, cacheItems, t) ==
    /\ now = t
    /\ defaultExpiration = newCache(duration)
    /\ items = cacheItems
    /\ mu = Unlocked
    /\ onEvicted = NilFunc
    /\ pc = [p \in Procs |-> IF p = GC THEN "select" ELSE "idle"]
    /\ loc = [p \in Procs |-> Blank]
    /\ stamp = [k \in Keys |-> NoStamp]
    /\ owed = EmptyBag
    /\ misfire = FALSE
    /\ nRemoved = 0
    /\ nCalls = 0
    /\ ops = 0

\* newCacheWithGarbageCollector: the collector runs iff cleanUpInterval > 0
InitWith(duration, cleanUpInterval, cacheItems, t) ==
    /\ now = t
    /\ defaultExpiration = newCache(duration)
    /\ items = cacheItems
    /\ mu = Unlocked
    /\ onEvicted = NilFunc
    /\ pc = [p \in Procs |->
                IF p = GC THEN (IF cleanUpInterval > 0 THEN "select" ELSE "none")
                ELSE "idle"]
    /\ loc = [p \in Procs |-> Blank]
    /\ stamp = [k \in Keys |-> NoStamp]
    /\ owed = EmptyBag
    /\ misfire = FALSE
    /\ nRemoved = 0
    /\ nCalls = 0
    /\ ops = 0

\* ------------------------------------------------------------------- clock
Tick ==
    /\ now < MaxTime
    /\ now' = now + 1
    /\ UNCHANGED <<defaultExpiration, items, mu, onEvicted, pc, loc, hist>>

\* ----------------------------------------------------------------- return
\* What a returned operation leaves in its goroutine: its name and its result.
Returned(op, res) == [Blank EXCEPT !.op = op, !.res = res]

\* the operation returns: a caller holds the result until it takes it; the
\* collector goes back to its select
Finish(p, kept) ==
    /\ pc' = [pc EXCEPT ![p] = IF p = GC THEN "select" ELSE "ret"]
    /\ loc' = [loc EXCEPT ![p] = IF p = GC THEN Blank ELSE kept]

\* the caller takes the result and is free to call again
Return(p) ==
    /\ pc[p] = "ret"
    /\ pc' = [pc EXCEPT ![p] = "idle"]
    /\ loc' = [loc EXCEPT ![p] = Blank]
    /\ UNCHANGED <<now, defaultExpiration, items, mu, onEvicted, hist>>

\* --------------------------------------------------------------------- Set
\* Set reads the clock and computes the expiration before it locks
SetCall(p, key, value, duration) ==
    /\ pc[p] = "idle"
    /\ pc' = [pc EXCEPT ![p] = "Set_lock"]
    /\ loc' = [loc EXCEPT ![p] = [Blank EXCEPT !.op = "Set", !.key = key, !.obj = value,
                                               !.dur = duration, !.t0 = now]]
    /\ UNCHANGED <<now, defaultExpiration, items, mu, onEvicted, hist>>

SetLock(p) ==
    /\ pc[p] = "Set_lock"
    /\ CanLock
    /\ mu' = [mu EXCEPT !.w = p]
    /\ pc' = [pc EXCEPT ![p] = "Set_cs"]
    /\ UNCHANGED <<now, defaultExpiration, items, onEvicted, loc, hist>>

SetStore(p) ==
    /\ pc[p] = "Set_cs"
    /\ items' = set(items, loc[p].key, loc[p].obj, Expiration(loc[p].dur, loc[p].t0))
    /\ stamp' = [stamp EXCEPT ![loc[p].key] = Stamp(loc[p].t0, loc[p].dur)]
    /\ mu' = Unlocked
    /\ Finish(p, Returned("Set", NoRes))
    /\ UNCHANGED <<now, defaultExpiration, onEvicted, evhist, ops>>

\* --------------------------------------------------------------------- Get
GetRLock(p, key) ==
    /\ pc[p] = "idle"
    /\ CanRLock
    /\ mu' = [mu EXCEPT !.r = @ \cup {p}]
    /\ pc' = [pc EXCEPT ![p] = "Get_cs"]
    /\ loc' = [loc EXCEPT ![p] = [Blank EXCEPT !.op = "Get", !.key = key]]
    /\ UNCHANGED <<now, defaultExpiration, items, onEvicted, hist>>

\* a Get that deletes the expired entries it meets
GetReadEvicting(p) ==
    /\ pc[p] = "Get_cs"
    /\ mu' = [mu EXCEPT !.r = @ \ {p}]
    /\ pc' = [pc EXCEPT ![p] = "ret"]
    /\ loc' = [loc EXCEPT ![p].res = Get(items, loc[p].key, now)]
    /\ items' = [k \in DOMAIN items \ ExpiredKeys(items, now) |-> items[k]]
    /\ UNCHANGED <<now, defaultExpiration, onEvicted, hist>>

GetRead(p) ==
    /\ pc[p] = "Get_cs"
    /\ mu' = [mu EXCEPT !.r = @ \ {p}]
    /\ pc' = [pc EXCEPT ![p] = "ret"]
    /\ loc' = [loc EXCEPT ![p].res = Get(items, loc[p].key, now)]
    /\ UNCHANGED <<now, defaultExpiration, items, onEvicted, hist>>

\* --------------------------------------------------------------------- Add
AddLock(p, key, value, duration) ==
    /\ pc[p] = "idle"
    /\ CanLock
    /\ mu' = [mu EXCEPT !.w = p]
    /\ pc' = [pc EXCEPT ![p] = "Add_cs"]
    /\ loc' = [loc EXCEPT ![p] = [Blank EXCEPT !.op = "Add", !.key = key, !.obj = value,
                                               !.dur = duration]]
    /\ UNCHANGED <<now, defaultExpiration, items, onEvicted, hist>>

\* an Add that unlocks after the lookup and stores without the lock
AddGetUnlocking(p) ==
    /\ pc[p] = "Add_cs"
    /\ mu' = Unlocked
    /\ IF get(items, loc[p].key, now).found
       THEN /\ pc' = [pc EXCEPT ![p] = "ret"]
            /\ loc' = [loc EXCEPT ![p].res = Res("AlreadyExists", FALSE, Nil, 0)]
       ELSE /\ pc' = [pc EXCEPT ![p] = "Add_set"]
            /\ loc' = loc
    /\ UNCHANGED <<now, defaultExpiration, items, onEvicted, hist>>

\* an Add that returns its error without Unlock
AddGetLeavingLocked(p) ==
    /\ pc[p] = "Add_cs"
    /\ IF get(items, loc[p].key, now).found
       THEN /\ pc' = [pc EXCEPT ![p] = "ret"]
            /\ loc' = [loc EXCEPT ![p].res = Res("AlreadyExists", FALSE, Nil, 0)]
       ELSE /\ pc' = [pc EXCEPT ![p] = "Add_set"]
            /\ loc' = loc
    /\ UNCHANGED <<now, defaultExpiration, items, mu, onEvicted, hist>>

\* _, found := c.get(key); if found: Unlock and return the error
AddGet(p) ==
    /\ pc[p] = "Add_cs"
    /\ IF get(items, loc[p].key, now).found
       THEN /\ mu' = Unlocked
            /\ pc' = [pc EXCEPT ![p] = "ret"]
            /\ loc' = [loc EXCEPT ![p].res = Res("AlreadyExists", FALSE, Nil, 0)]
       ELSE /\ mu' = mu
            /\ pc' = [pc EXCEPT ![p] = "Add_set"]
            /\ loc' = loc
    /\ UNCHANGED <<now, defaultExpiration, items, onEvicted, hist>>

\* an Add that reports the entry it writes over to the callback
AddSetEvicting(p) ==
    /\ pc[p] = "Add_set"
    /\ items' = set(items, loc[p].key, loc[p].obj, Expiration(loc[p].dur, now))
    /\ stamp' = [stamp EXCEPT ![loc[p].key] = Stamp(now, loc[p].dur)]
    /\ mu' = Unlocked
    /\ pc' = [pc EXCEPT ![p] = "ret"]
    /\ loc' = [loc EXCEPT ![p].res = Res("nil", FALSE, Nil, Expiration(loc[p].dur, now))]
    /\ nCalls' = IF loc[p].key \in DOMAIN items /\ onEvicted # NilFunc
                 THEN nCalls + 1 ELSE nCalls
    /\ UNCHANGED <<now, defaultExpiration, onEvicted, owed, misfire, nRemoved, ops>>

\* c.set(key, value, duration); Unlock; return nil
AddSet(p) ==
    /\ pc[p] = "Add_set"
    /\ items' = set(items, loc[p].key, loc[p].obj, Expiration(loc[p].dur, now))
    /\ stamp' = [stamp EXCEPT ![loc[p].key] = Stamp(now, loc[p].dur)]
    /\ mu' = Unlocked
    /\ pc' = [pc EXCEPT ![p] = "ret"]
    /\ loc' = [loc EXCEPT ![p].res = Res("nil", FALSE, Nil, Expiration(loc[p].dur, now))]
    /\ UNCHANGED <<now, defaultExpiration, onEvicted, evhist, ops>>

\* ----------------------------------------------------------------- Replace
ReplaceLock(p, key, value, duration) ==
    /\ pc[p] = "idle"
    /\ CanLock
    /\ mu' = [mu EXCEPT !.w = p]
    /\ pc' = [pc EXCEPT ![p] = "Replace_cs"]
    /\ loc' = [loc EXCEPT ![p] = [Blank EXCEPT !.op = "Replace", !.key = key, !.obj = value,
                                               !.dur = duration]]
    /\ UNCHANGED <<now, defaultExpiration, items, onEvicted, hist>>

\* a Replace that unlocks after the lookup and stores without the lock
ReplaceGetUnlocking(p) ==
    /\ pc[p] = "Replace_cs"
    /\ mu' = Unlocked
    /\ IF ~get(items, loc[p].key, now).found
       THEN /\ pc' = [pc EXCEPT ![p] = "ret"]
            /\ loc' = [loc EXCEPT ![p].res = Res("NotFound", FALSE, Nil, 0)]
       ELSE /\ pc' = [pc EXCEPT ![p] = "Replace_set"]
            /\ loc' = loc
    /\ UNCHANGED <<now, defaultExpiration, items, onEvicted, hist>>

\* _, found := c.get(key); if !found: Unlock and return the error
ReplaceGet(p) ==
    /\ pc[p] = "Replace_cs"
    /\ IF ~get(items, loc[p].key, now).found
       THEN /\ mu' = Unlocked
            /\ pc' = [pc EXCEPT ![p] = "ret"]
            /\ loc' = [loc EXCEPT ![p].res = Res("NotFound", FALSE, Nil, 0)]
       ELSE /\ mu' = mu
            /\ pc' = [pc EXCEPT ![p] = "Replace_set"]
            /\ loc' = loc
    /\ UNCHANGED <<now, defaultExpiration, items, onEvicted, hist>>

ReplaceSet(p) ==
    /\ pc[p] = "Replace_set"
    /\ items' = set(items, loc[p].key, loc[p].obj, Expiration(loc[p].dur, now))
    /\ stamp' = [stamp EXCEPT ![loc[p].key] = Stamp(now, loc[p].dur)]
    /\ mu' = Unlocked
    /\ pc' = [pc EXCEPT ![p] = "ret"]
    /\ loc' = [loc EXCEPT ![p].res = Res("nil", FALSE, Nil, Expiration(loc[p].dur, now))]
    /\ UNCHANGED <<now, defaultExpiration, onEvicted, evhist, ops>>

\* ------------------------------------------------------- eviction callback
\* c.onEvicted(key, value), called without the lock: a call through a nil
\* func panics, which ends the whole process (every goroutine stops);
\* otherwise the registered function starts running
Notify(p, pair, running) ==
    IF onEvicted = NilFunc
    THEN /\ pc' = [q \in Procs |-> "panicked"]
         /\ UNCHANGED <<loc, evhist>>
    ELSE /\ pc' = [pc EXCEPT ![p] = running]
         /\ loc' = [loc EXCEPT ![p].key = pair.key, ![p].obj = pair.obj,
                               ![p].ev = @ \ {pair}]
         /\ nCalls' = nCalls + 1
         /\ IF BagIn(pair, owed)
            THEN owed' = owed (-) SetToBag({pair}) /\ misfire' = misfire
            ELSE owed' = owed /\ misfire' = TRUE
         /\ nRemoved' = nRemoved

\* history of a removal step of delete or DeleteExpired: the entries that left
\* the map while a callback was registered are owed one notification each
Removed(its, rest) ==
    LET pairs == IF onEvicted = NilFunc THEN {}
                 ELSE {Pair(k, its[k].Object) : k \in DOMAIN its \ DOMAIN rest}
    IN  /\ owed' = owed (+) SetToBag(pairs)
        /\ nRemoved' = nRemoved + Cardinality(pairs)
        /\ UNCHANGED <<misfire, nCalls>>

\* ------------------------------------------------------------------ Delete
DeleteLock(p, key) ==
    /\ pc[p] = "idle"
    /\ CanLock
    /\ mu' = [mu EXCEPT !.w = p]
    /\ pc' = [pc EXCEPT ![p] = "Delete_cs"]
    /\ loc' = [loc EXCEPT ![p] = [Blank EXCEPT !.op = "Delete", !.key = key]]
    /\ UNCHANGED <<now, defaultExpiration, items, onEvicted, hist>>

\* a Delete that calls the callback before it unlocks
DeleteBodyKeepingLock(p) ==
    /\ pc[p] = "Delete_cs"
    /\ LET d == delete(items, onEvicted, loc[p].key)
       IN  /\ items' = d.items
           /\ Removed(items, d.items)
           /\ IF d.evicted
              THEN /\ pc' = [pc EXCEPT ![p] = "Delete_notify"]
                   /\ loc' = [loc EXCEPT ![p].ev = {Pair(loc[p].key, d.obj)},
                                         ![p].cb = onEvicted]
                   /\ mu' = mu
              ELSE /\ Finish(p, Returned("Delete", NoRes))
                   /\ mu' = Unlocked
    /\ stamp' = [stamp EXCEPT ![loc[p].key] = NoStamp]
    /\ UNCHANGED <<now, defaultExpiration, onEvicted, ops>>

\* item, evicted := c.delete(key); Unlock
DeleteBody(p) ==
    /\ pc[p] = "Delete_cs"
    /\ LET d == delete(items, onEvicted, loc[p].key)
       IN  /\ items' = d.items
           /\ Removed(items, d.items)
           /\ IF d.evicted
              THEN /\ pc' = [pc EXCEPT ![p] = "Delete_notify"]
                   /\ loc' = [loc EXCEPT ![p].ev = {Pair(loc[p].key, d.obj)},
                                         ![p].cb = onEvicted]
              ELSE Finish(p, Returned("Delete", NoRes))
    /\ stamp' = [stamp EXCEPT ![loc[p].key] = NoStamp]
    /\ mu' = Unlocked
    /\ UNCHANGED <<now, defaultExpiration, onEvicted, ops>>

\* if evicted { c.onEvicted(key, item) }
DeleteNotify(p) ==
    /\ pc[p] = "Delete_notify"
    /\ \E pair \in loc[p].ev : Notify(p, pair, "Delete_incb")
    /\ UNCHANGED <<now, defaultExpiration, items, mu, onEvicted, stamp, ops>>

\* ----------------------------------------------------------- DeleteExpired
\* now := time.Now().UnixNano(), read before the lock is taken
DeleteExpiredCall(p) ==
    /\ pc[p] = Home(p)
    /\ pc' = [pc EXCEPT ![p] = "DeleteExpired_lock"]
    /\ loc' = [loc EXCEPT ![p] = [Blank EXCEPT !.op = "DeleteExpired", !.t0 = now]]
    /\ UNCHANGED <<now, defaultExpiration, items, mu, onEvicted, hist>>

DeleteExpiredLock(p) ==
    /\ pc[p] = "DeleteExpired_lock"
    /\ CanLock
    /\ mu' = [mu EXCEPT !.w = p]
    /\ pc' = [pc EXCEPT ![p] = "DeleteExpired_cs"]
    /\ UNCHANGED <<now, defaultExpiration, items, onEvicted, loc, hist>>

\* the loop over c.items, then Unlock; the victims are notified in map order,
\* which is any order
DeleteExpiredScan(p) ==
    /\ pc[p] = "DeleteExpired_cs"
    /\ LET gone == ExpiredKeys(items, loc[p].t0)
           evictedItems == {Pair(k, delete(items, onEvicted, k).obj) :
                              k \in {j \in gone : delete(items, onEvicted, j).evicted}}
       IN  /\ items' = [k \in DOMAIN items \ gone |-> items[k]]
           /\ Removed(items, [k \in DOMAIN items \ gone |-> items[k]])
           /\ IF evictedItems = {}
              THEN Finish(p, Returned("DeleteExpired", NoRes))
              ELSE /\ pc' = [pc EXCEPT ![p] = "DeleteExpired_notify"]
                   /\ loc' = [loc EXCEPT ![p].ev = evictedItems, ![p].cb = onEvicted]
    /\ mu' = Unlocked
    /\ UNCHANGED <<now, defaultExpiration, onEvicted, stamp, ops>>

\* for _, value := range evictedItems { c.onEvicted(value.key, value.value) }
DeleteExpiredNotify(p) ==
    /\ pc[p] = "DeleteExpired_notify"
    /\ \E pair \in loc[p].ev : Notify(p, pair, "DeleteExpired_incb")
    /\ UNCHANGED <<now, defaultExpiration, items, mu, onEvicted, stamp, ops>>

\* The registered function runs in the goroutine that removed the entry.
\* It is caller code; here it looks the key up again with c.Get, which needs
\* the read lock, and returns.
CallbackRun(p) ==
    /\ pc[p] \in {"Delete_incb", "DeleteExpired_incb"}
    /\ CanRLock
    /\ IF pc[p] = "DeleteExpired_incb" /\ loc[p].ev # {}
       THEN /\ pc' = [pc EXCEPT ![p] = "DeleteExpired_notify"]
            /\ loc' = [loc EXCEPT ![p].key = NoKey, ![p].obj = Nil]
       ELSE Finish(p, Returned(loc[p].op, NoRes))
    /\ UNCHANGED <<now, defaultExpiration, items, mu, onEvicted, hist>>

\* --------------------------------------------------------------- OnEvicted
OnEvictedLock(p, f) ==
    /\ pc[p] = "idle"
    /\ CanLock
    /\ mu' = [mu EXCEPT !.w = p]
    /\ pc' = [pc EXCEPT ![p] = "OnEvicted_cs"]
    /\ loc' = [loc EXCEPT ![p] = [Blank EXCEPT !.op = "OnEvicted", !.key = f]]
    /\ UNCHANGED <<now, defaultExpiration, items, onEvicted, hist>>

OnEvictedStore(p) ==
    /\ pc[p] = "OnEvicted_cs"
    /\ onEvicted' = loc[p].key
    /\ mu' = Unlocked
    /\ Finish(p, Returned("OnEvicted", NoRes))
    /\ UNCHANGED <<now, defaultExpiration, items, hist>>

\* ------------------------------------------------------------------- Flush
FlushLock(p) ==
    /\ pc[p] = "idle"
    /\ CanLock
    /\ mu' = [mu EXCEPT !.w = p]
    /\ pc' = [pc EXCEPT ![p] = "Flush_cs"]
    /\ loc' = [loc EXCEPT ![p] = [Blank EXCEPT !.op = "Flush"]]
    /\ UNCHANGED <<now, defaultExpiration, items, onEvicted, hist>>

\* a Flush that reports every entry it drops to the callback
FlushStoreNotifying(p) ==
    /\ pc[p] = "Flush_cs"
    /\ items' = [k \in {} |-> Item(Nil, 0)]
    /\ stamp' = [k \in Keys |-> NoStamp]
    /\ mu' = Unlocked
    /\ Finish(p, Returned("Flush", NoRes))
    /\ nCalls' = IF onEvicted = NilFunc THEN nCalls ELSE nCalls + Cardinality(DOMAIN items)
    /\ UNCHANGED <<now, defaultExpiration, onEvicted, owed, misfire, nRemoved, ops>>

FlushStore(p) ==
    /\ pc[p] = "Flush_cs"
    /\ items' = [k \in {} |-> Item(Nil, 0)]
    /\ stamp' = [k \in Keys |-> NoStamp]
    /\ mu' = Unlocked
    /\ Finish(p, Returned("Flush", NoRes))
    /\ UNCHANGED <<now, defaultExpiration, onEvicted, evhist, ops>>

\* ------------------------------------------------------- garbage collector
\* a collector that takes the tick and purges nothing
RunTickIdle ==
    /\ pc[GC] = "select"
    /\ UNCHANGED vars

\* garbageCollector.Run, case <-ticker.C: c.DeleteExpired()
RunTick == DeleteExpiredCall(GC)

\* stopGarbageCollector: c.garbageCollector.stop <- true, a send on an
\* unbuffered channel: the sender waits until Run receives
StopSend(p) ==
    /\ pc[p] = "idle"
    /\ pc[GC] # "none"
    /\ pc' = [pc EXCEPT ![p] = "Stop_send"]
    /\ loc' = [loc EXCEPT ![p] = [Blank EXCEPT !.op = "Stop"]]
    /\ UNCHANGED <<now, defaultExpiration, items, mu, onEvicted, hist>>

\* a receive that ends Run and leaves the sender waiting
RunStopDroppingSignal(p) ==
    /\ pc[GC] = "select"
    /\ pc[p] = "Stop_send"
    /\ pc' = [pc EXCEPT ![GC] = "stopped"]
    /\ UNCHANGED <<now, defaultExpiration, items, mu, onEvicted, loc, hist>>

\* a collector that receives the stop signal and still serves a pending tick
RunStopContinuing(p) ==
    /\ pc[GC] = "select"
    /\ pc[p] = "Stop_send"
    /\ pc' = [pc EXCEPT ![GC] = "DeleteExpired_lock", ![p] = "ret"]
    /\ loc' = [loc EXCEPT ![p] = Returned("Stop", NoRes),
                          ![GC] = [Blank EXCEPT !.op = "DeleteExpired", !.t0 = now]]
    /\ UNCHANGED <<now, defaultExpiration, items, mu, onEvicted, hist>>

\* garbageCollector.Run, case <-gc.stop: ticker.Stop(); return.  The receive
\* and the send happen together.
RunStop(p) ==
    /\ pc[GC] = "select"
    /\ pc[p] = "Stop_send"
    /\ pc' = [pc EXCEPT ![GC] = "stopped", ![p] = "ret"]
    /\ loc' = [loc EXCEPT ![p] = Returned("Stop", NoRes)]
    /\ UNCHANGED <<now, defaultExpiration, items, mu, onEvicted, hist>>

\* --------------------------------------------------------------- increments
\* the numeric dynamic types the type switches know
Integers == {"int", "int8", "int16", "int32", "int64",
             "uint", "uintptr", "uint8", "uint16", "uint32", "uint64"}
Floats == {"float32", "float64"}
Signed(kind) == kind \in {"int", "int8", "int16", "int32", "int64"}
Bits(kind) ==
    IF kind \in {"int8", "uint8"} THEN 8
    ELSE IF kind \in {"int16", "uint16"} THEN 16
    ELSE IF kind \in {"int32", "uint32"} THEN 32
    ELSE 64

\* x as a value of the given type: Go's arithmetic and conversions wrap
\* around at the width of the type.  The values of the 32 and 64 bit types
\* and of the floats stay far from their limits here and are kept as they are.
Wrap(kind, x) ==
    IF kind \in Integers /\ Bits(kind) <= 16
    THEN LET m == 2 ^ Bits(kind)
         IN  IF Signed(kind) THEN ((x + m \div 2) % m) - m \div 2 ELSE x % m
    ELSE x

\* the type switch of Increment(key, n int64): every numeric type, floats included
Increment(obj, n) ==
    IF obj.kind \in Integers \cup Floats
    THEN [ok |-> TRUE, obj |-> Num(obj.kind, Wrap(obj.kind, obj.val + Wrap(obj.kind, n)))]
    ELSE [ok |-> FALSE, obj |-> obj]

\* the type switch of IncrementFloat(key, n float64)
IncrementFloat(obj, n) ==
    IF obj.kind \in Floats
    THEN [ok |-> TRUE, obj |-> Num(obj.kind, obj.val + n)]
    ELSE [ok |-> FALSE, obj |-> obj]

\* a typed increment that converts any stored integer instead of rejecting it
IncrementTypedCoercing(kind, obj, n) ==
    IF obj.kind = kind \/ (obj.kind \in Integers /\ kind \in Integers)
    THEN [ok |-> TRUE, obj |-> Num(kind, Wrap(kind, obj.val + n))]
    ELSE [ok |-> FALSE, obj |-> obj]

\* the type assertion of IncrementInt, IncrementInt8, ..., IncrementFloat64:
\* value, ok := item.Object.(T); newValue := value + n
IncrementTyped(kind, obj, n) ==
    IF obj.kind = kind
    THEN [ok |-> TRUE, obj |-> Num(kind, Wrap(kind, obj.val + n))]
    ELSE [ok |-> FALSE, obj |-> obj]

\* an increment that stores a fresh Item, without the old Expiration
IncrementedAfresh(item, obj) == Item(obj, 0)

\* item.Object = newValue; c.items[key] = item
Incremented(item, obj) == [item EXCEPT !.Object = obj]

\* the operation is kept in loc.op; the type of n and n itself in loc.obj
IncrementLock(p, op, key, kind, n) ==
    /\ pc[p] = "idle"
    /\ CanLock
    /\ mu' = [mu EXCEPT !.w = p]
    /\ pc' = [pc EXCEPT ![p] = "Increment_cs"]
    /\ loc' = [loc EXCEPT ![p] = [Blank EXCEPT !.op = op, !.key = key, !.obj = Num(kind, n)]]
    /\ ops' = ops + 1
    /\ UNCHANGED <<now, defaultExpiration, items, onEvicted, stamp, evhist>>

\* from the lookup to the Unlock, given the outcome r of the type switch or
\* assertion on the stored object; only the typed increments return the value
IncrementStore(p, r, returnsValue) ==
    LET key == loc[p].key
    IN  /\ mu' = Unlocked
        /\ pc' = [pc EXCEPT ![p] = "ret"]
        /\ IF key \notin DOMAIN items \/ Expired(items[key], now)
           THEN /\ items' = items
                /\ loc' = [loc EXCEPT ![p].res = Res("NotFound", FALSE, Nil, 0)]
           ELSE IF ~r.ok
           THEN /\ items' = items
                /\ loc' = [loc EXCEPT ![p].res = Res("TypeMismatch", FALSE, Nil, 0)]
           ELSE /\ items' = [items EXCEPT ![key] = Incremented(items[key], r.obj)]
                /\ loc' = [loc EXCEPT ![p].res =
                              Res("nil", FALSE, IF returnsValue THEN r.obj ELSE Nil, 0)]
        /\ UNCHANGED <<now, defaultExpiration, onEvicted, hist>>

StoredObject(p) ==
    IF loc[p].key \in DOMAIN items THEN items[loc[p].key].Object ELSE Nil

IncrementBody(p) ==
    /\ pc[p] = "Increment_cs"
    /\ loc[p].op = "Increment"
    /\ IncrementStore(p, Increment(StoredObject(p), loc[p].obj.val), FALSE)

IncrementFloatBody(p) ==
    /\ pc[p] = "Increment_cs"
    /\ loc[p].op = "IncrementFloat"
    /\ IncrementStore(p, IncrementFloat(StoredObject(p), loc[p].obj.val), FALSE)

IncrementTypedBody(p) ==
    /\ pc[p] = "Increment_cs"
    /\ loc[p].op = "IncrementTyped"
    /\ IncrementStore(p, IncrementTyped(loc[p].obj.kind, StoredObject(p), loc[p].obj.val), TRUE)

\* ======================================================== specifications
Callers == {"t1", "t2"}
NoItems == [k \in {} |-> Item(Nil, 0)]

\* ------------------------------------------------ Spec: writes and evictions
\* Two callers and the garbage collector work on one key of a cache made by
\* New(0, interval) with interval > 0; callers register and clear the callback.
StoreKeys == {"k1"}
StoreValues == {Str(1), Str(2)}
StoreDurations == {1}
StoreFuncs == {NilFunc, "f1"}

Init == InitWith(0, 1, NoItems, 1)

Removing(p) ==
    \/ \E k \in StoreKeys : DeleteLock(p, k)
    \/ DeleteExpiredCall(p)

StoreStep(p) ==
    \/ \E k \in StoreKeys, v \in StoreValues, d \in StoreDurations : SetCall(p, k, v, d)
    \/ SetLock(p)
    \/ SetStore(p)
    \/ \E k \in StoreKeys : GetRLock(p, k)
    \/ GetRead(p)
    \/ Return(p)
    \/ nRemoved < MaxRemovals /\ Removing(p)
    \/ DeleteBody(p)
    \/ DeleteNotify(p)
    \/ DeleteExpiredLock(p)
    \/ DeleteExpiredScan(p)
    \/ DeleteExpiredNotify(p)
    \/ CallbackRun(p)
    \/ \E f \in StoreFuncs : OnEvictedLock(p, f)
    \/ OnEvictedStore(p)
    \/ FlushLock(p)
    \/ FlushStore(p)

GCStep ==
    \/ nRemoved < MaxRemovals /\ RunTick
    \/ DeleteExpiredLock(GC)
    \/ DeleteExpiredScan(GC)
    \/ DeleteExpiredNotify(GC)
    \/ CallbackRun(GC)

Next ==
    \/ Tick
    \/ \E p \in Callers : StoreStep(p)
    \/ GCStep

Spec == Init /\ [][Next]_vars

\* ------------------------------------------------------------ vocabulary
AtRest(p) == pc[p] \in {"idle", "ret", "select", "none", "stopped"}
Quiet == \A p \in Procs : AtRest(p)
Notifying(p) == pc[p] \in {"Delete_notify", "DeleteExpired_notify"}
InCallback(p) == pc[p] \in {"Delete_incb", "DeleteExpired_incb"}
InCriticalSection(p) ==
    pc[p] \in {"Set_cs", "Get_cs", "Add_cs", "Add_set", "Replace_cs", "Replace_set",
               "Delete_cs", "DeleteExpired_cs", "OnEvicted_cs", "Flush_cs",
               "Increment_cs", "GetWithExpiration_cs", "Items_cs", "ItemCount_cs",
               "IncrementInt_cs", "IncrementInt_store"}
Holding(p) == mu.w = p \/ p \in mu.r

\* the victims a goroutine has collected and not yet handed to the callback
Pending(p) ==
    IF Notifying(p) \/ InCallback(p) THEN SetToBag(loc[p].ev) ELSE EmptyBag
AllPending == Pending("t1") (+) Pending("t2") (+) Pending("t3") (+) Pending(GC)

\* ---------------------------------------------------------------------- C3
\* C3: with a callback registered, each entry removed by Delete or
\* DeleteExpired is notified exactly once, with the removed (key, value):
\* the callback is never called with a pair that is not owed (so never
\* twice, also when Delete and DeleteExpired race on one expired key), and
\* every removed pair not yet notified is held by exactly one goroutine that
\* is on its way to the call, so nothing is owed once all operations returned.
C3_ExactlyOnce ==
    /\ ~misfire
    /\ ~Crashed => owed = AllPending
    /\ Quiet => owed = EmptyBag

\* DeleteExpired of the collector won the race for the expired key and its
\* callback runs, while Delete of the same key holds the lock and finds nothing
C3_Witness ==
    /\ pc[GC] = "DeleteExpired_incb"
    /\ pc["t1"] = "Delete_cs"
    /\ loc["t1"].key = loc[GC].key
    /\ loc[GC].key \notin DOMAIN items
    /\ nCalls = 1
    /\ nRemoved = 1

\* ---------------------------------------------------------------------- C4
\* C4: the callback is called only by the notification step of a Delete or a
\* DeleteExpired that removed an entry (never by Flush, Set, Get, or a Delete
\* that found nothing), one call per step; the calls never exceed the
\* removals made with a callback registered, and equal them whenever no
\* operation is in progress.
C4_OnlyRemovalsNotify ==
    /\ [](nCalls <= nRemoved)
    /\ [](Quiet => nCalls = nRemoved)
    /\ [][nCalls' # nCalls =>
            /\ nCalls' = nCalls + 1
            /\ \E p \in Procs : Notifying(p) /\ InCallback(p)' /\ loc[p].ev # {}]_vars
    /\ [][nRemoved' # nRemoved =>
            /\ onEvicted # NilFunc
            /\ nRemoved' - nRemoved = Cardinality(DOMAIN items \ DOMAIN items')
            /\ \E p \in Procs : pc[p] \in {"Delete_cs", "DeleteExpired_cs"} /\ pc'[p] # pc[p]]_vars

\* all operations returned, two removals were notified, the callback is still
\* registered and the key has been set again
C4_Witness ==
    /\ Quiet
    /\ nRemoved = MaxRemovals
    /\ nCalls = MaxRemovals
    /\ onEvicted = "f1"
    /\ "k1" \in DOMAIN items

\* ---------------------------------------------------------------------- C5
\* C5: a goroutine that is about to call, or is inside, the eviction callback
\* holds the lock neither for writing nor for reading, and whoever holds the
\* lock is inside a critical section (not waiting in a callback), so the
\* callback's own Store operation gets the lock.
C5_CallbackOutsideLock ==
    /\ \A p \in Procs : (Notifying(p) \/ InCallback(p)) => ~Holding(p)
    /\ ~Crashed => \A p \in Procs : Holding(p) => InCriticalSection(p)

\* the callback of t1's Delete runs while t2 is inside the lock
C5_Witness ==
    /\ pc["t1"] = "Delete_incb"
    /\ mu.w = "t2"

\* --------------------------------------------------- SpecTTL: expiration
\* No callback is registered: callers set one key with a ttl or without
\* expiration, read it, delete it, flush and purge, while the clock advances
\* and the collector sweeps.
TTLDurations == {1, 2, NoExpiration}

TTLStep(p) ==
    \/ \E k \in StoreKeys, v \in StoreValues, d \in TTLDurations : SetCall(p, k, v, d)
    \/ SetLock(p)
    \/ SetStore(p)
    \/ \E k \in StoreKeys : GetRLock(p, k)
    \/ GetRead(p)
    \/ Return(p)
    \/ \E k \in StoreKeys : DeleteLock(p, k)
    \/ DeleteBody(p)
    \/ DeleteExpiredCall(p)
    \/ DeleteExpiredLock(p)
    \/ DeleteExpiredScan(p)
    \/ FlushLock(p)
    \/ FlushStore(p)

TTLSweep ==
    \/ RunTick
    \/ DeleteExpiredLock(GC)
    \/ DeleteExpiredScan(GC)

NextTTL ==
    \/ Tick
    \/ \E p \in Callers : TTLStep(p)
    \/ TTLSweep

SpecTTL == Init /\ [][NextTTL]_vars

\* a Get that returns in this step, and the key it looked up
GetReturns(p) == pc[p] = "Get_cs" /\ pc'[p] = "ret"

\* ---------------------------------------------------------------------- C2
\* C2 (as amended): a key last written by Set at time t with an explicit ttl
\* d > 0, and not deleted or flushed since, is found by Get, with the stored
\* object, at every time now <= t + d and is not found at every time
\* now > t + d, whether or not DeleteExpired has removed the entry.
C2_TTL ==
    [][\A p \in Callers :
        LET k == loc[p].key
        IN  (GetReturns(p) /\ stamp[k].set /\ stamp[k].d > 0) =>
              /\ loc'[p].res.found <=> now <= stamp[k].t + stamp[k].d
              /\ loc'[p].res.found =>
                    k \in DOMAIN items /\ loc'[p].res.obj = items[k].Object]_vars

\* C2 as stated: found exactly while now < t + d
C2_Original ==
    [][\A p \in Callers :
        LET k == loc[p].key
        IN  (GetReturns(p) /\ stamp[k].set /\ stamp[k].d > 0) =>
              (loc'[p].res.found <=> now < stamp[k].t + stamp[k].d)]_vars

\* t1's Get found the key at the last instant t + d; later t2's Get did not,
\* although the entry is still in the map
C2_Witness ==
    /\ pc["t1"] = "ret" /\ loc["t1"].op = "Get" /\ loc["t1"].res.found
    /\ pc["t2"] = "ret" /\ loc["t2"].op = "Get" /\ ~loc["t2"].res.found
    /\ stamp["k1"].set /\ stamp["k1"].d = 1 /\ stamp["k1"].t = 1
    /\ now = 3
    /\ "k1" \in DOMAIN items

\* --------------------------------------------------------------------- C10
\* C10: a key last written by Set with NoExpiration, and not deleted or
\* flushed since, is found by every Get, with its object, at any time; and an
\* entry without expiration leaves the map or changes only in a step of
\* Delete, Flush or a write of that key, never in a step of DeleteExpired.
C10_NeverExpires ==
    /\ [][\A p \in Callers :
            LET k == loc[p].key
            IN  (GetReturns(p) /\ stamp[k].set /\ stamp[k].d = NoExpiration) =>
                  /\ k \in DOMAIN items
                  /\ loc'[p].res.found
                  /\ loc'[p].res.obj = items[k].Object]_vars
    /\ [][\A k \in DOMAIN items :
            (items[k].Expiration = 0 /\ (k \notin DOMAIN items' \/ items'[k] # items[k])) =>
                \E p \in Procs :
                    /\ pc[p] \in {"Set_cs", "Add_set", "Replace_set", "Delete_cs",
                                  "Flush_cs", "Increment_cs"}
                    /\ pc'[p] # pc[p]]_vars

\* at the end of time t1's DeleteExpired has returned, and t2's Get has found
\* the key that was set without expiration at time 1
C10_Witness ==
    /\ now = MaxTime
    /\ pc["t1"] = "ret" /\ loc["t1"].op = "DeleteExpired"
    /\ pc["t2"] = "ret" /\ loc["t2"].op = "Get" /\ loc["t2"].res.found
    /\ stamp["k1"] = Stamp(1, NoExpiration)
    /\ "k1" \in DOMAIN items /\ items["k1"].Expiration = 0

\* ------------------------------------------------- SpecAdd: racing Adds
\* Three goroutines call Add once each, for the same key, each with its own
\* value.  The cache is new, or was made by NewForm with an entry of that key
\* that has already expired.
Own(p) == IF p = "t1" THEN Str(1) ELSE IF p = "t2" THEN Str(2) ELSE Str(3)
AddDurations == {1, NoExpiration}

InitAdd ==
    \/ InitWith(0, 0, NoItems, 1)
    \/ InitWith(0, 0, [k \in {"k1"} |-> Item(Str(0), 1)], 2)

NextAdd ==
    \/ Tick
    \/ \E p \in Threads, d \in AddDurations : AddLock(p, "k1", Own(p), d)
    \/ \E p \in Threads : AddGet(p)
    \/ \E p \in Threads : AddSet(p)

SpecAdd == InitAdd /\ [][NextAdd]_vars

\* the Adds that returned nil, and whether the entry each stored is unexpired
Winners == {p \in Threads : pc[p] = "ret" /\ loc[p].op = "Add" /\ loc[p].res.err = "nil"}
Losers == {p \in Threads : pc[p] = "ret" /\ loc[p].op = "Add" /\ loc[p].res.err = "AlreadyExists"}
StillLive(p) == loc[p].res.exp = 0 \/ now <= loc[p].res.exp

\* ---------------------------------------------------------------------- C1
\* C1: of the concurrent Adds of one key that had no unexpired entry, as long
\* as no stored entry has expired, at most one has returned nil and the map
\* holds its value; when all have returned, exactly one has returned nil and
\* all the others the "already exists" error.
C1_OneAddWins ==
    (\A w \in Winners : StillLive(w)) =>
        /\ Cardinality(Winners) <= 1
        /\ \A w \in Winners : "k1" \in DOMAIN items /\ items["k1"].Object = loc[w].obj
        /\ (\A p \in Threads : pc[p] = "ret") =>
              /\ Cardinality(Winners) = 1
              /\ Losers = Threads \ Winners

\* all three Adds returned at the end of time; t2 won over an expired entry
\* of NewForm, t1 and t3 got the error
C1_Witness ==
    /\ \A p \in Threads : pc[p] = "ret"
    /\ Winners = {"t2"}
    /\ Losers = {"t1", "t3"}
    /\ items["k1"] = Item(Str(2), 0)
    /\ now = MaxTime

\* ------------------------------------------------- SpecStop: stopping
\* Callers signal the collector to stop, any number of times, while it sweeps
\* a key that one of them sets.
StopStep(p) ==
    \/ StopSend(p)
    \/ RunStop(p)
    \/ \E v \in StoreValues, d \in StoreDurations : SetCall(p, "k1", v, d)
    \/ SetLock(p)
    \/ SetStore(p)
    \/ Return(p)

NextStop ==
    \/ Tick
    \/ \E p \in Callers : StopStep(p)
    \/ TTLSweep

SpecStop == Init /\ [][NextStop]_vars

\* ---------------------------------------------------------------------- C6
\* C6 as stated: no stop signal hangs.  A caller that is sending on the stop
\* channel after Run has returned waits for a receive that never comes.
C6_StopNeverHangs ==
    ~(pc[GC] = "stopped" /\ \E p \in Callers : pc[p] = "Stop_send")

\* --------------------------------------------- SpecIncr: the increments
\* Two callers increment one key of a cache made by NewForm, which holds a
\* number of some type or a string, with or without expiration, or nothing.
IncrValues == {Num("int", 5), Num("int8", 127), Num("uint8", 0), Num("float64", 2), Str(1)}
IncrExpirations == {0, 2}
IncrDeltas == {1, -1}
TypedCalls == {<<"int", 1>>, <<"int8", 1>>, <<"uint8", 255>>, <<"float64", 1>>}

InitIncr ==
    \/ InitWith(0, 0, NoItems, 1)
    \/ \E v \in IncrValues, e \in IncrExpirations :
          InitWith(0, 0, [k \in {"k1"} |-> Item(v, e)], 1)

IncrCall(p) ==
    \/ \E n \in IncrDeltas : IncrementLock(p, "Increment", "k1", "int64", n)
    \/ \E n \in IncrDeltas : IncrementLock(p, "IncrementFloat", "k1", "float64", n)
    \/ \E c \in TypedCalls : IncrementLock(p, "IncrementTyped", "k1", c[1], c[2])

IncrStep(p) ==
    \/ ops < MaxOps /\ IncrCall(p)
    \/ IncrementBody(p)
    \/ IncrementFloatBody(p)
    \/ IncrementTypedBody(p)
    \/ Return(p)

NextIncr ==
    \/ Tick
    \/ \E p \in Callers : IncrStep(p)

SpecIncr == InitIncr /\ [][NextIncr]_vars

\* an increment that returns in this step; the entry it found, if any
IncrementReturns(p) == pc[p] = "Increment_cs" /\ pc'[p] = "ret"
Live(k) == k \in DOMAIN items /\ (items[k].Expiration = 0 \/ now <= items[k].Expiration)

\* ---------------------------------------------------------------------- C7
\* C7 as stated: Increment(key, n) on an unexpired entry that holds a float32
\* or float64 returns the type error and leaves the map as it was.
C7_IncrementRejectsFloats ==
    [][\A p \in Callers :
        (/\ IncrementReturns(p)
         /\ loc[p].op = "Increment"
         /\ Live(loc[p].key)
         /\ items[loc[p].key].Object.kind \in {"float32", "float64"}) =>
            /\ loc'[p].res.err = "TypeMismatch"
            /\ items' = items]_vars

\* ---------------------------------------------------------------------- C8
\* C8: an increment that returns an error leaves the map as it was; it
\* returns "not found" when the key is absent or its entry has expired, and
\* the type error when the unexpired entry holds a string or, for a typed
\* increment, an object of another type than the increment's.
C8_FailedIncrementChangesNothing ==
    [][\A p \in Callers :
        IncrementReturns(p) =>
            LET k == loc[p].key
            IN  /\ loc'[p].res.err # "nil" => items' = items
                /\ ~Live(k) => loc'[p].res.err = "NotFound"
                /\ (Live(k) /\ items[k].Object.kind = "string") =>
                        loc'[p].res.err = "TypeMismatch"
                /\ (Live(k) /\ loc[p].op = "IncrementTyped"
                            /\ items[k].Object.kind # loc[p].obj.kind) =>
                        loc'[p].res.err = "TypeMismatch"]_vars

\* t1's IncrementInt8 met an int and returned the type error, later t2's
\* increment met the expired entry; the int entry is as NewForm stored it
C8_Witness ==
    /\ pc["t1"] = "ret" /\ loc["t1"].op = "IncrementTyped" /\ loc["t1"].obj.kind = "int8"
    /\ loc["t1"].res.err = "TypeMismatch"
    /\ pc["t2"] = "ret" /\ loc["t2"].res.err = "NotFound"
    /\ "k1" \in DOMAIN items /\ items["k1"] = Item(Num("int", 5), 2)
    /\ now = 3

\* ---------------------------------------------------------------------- C9
\* the values of a type, for the types narrow enough to wrap around here
InType(kind, x) ==
    IF kind = "int8" THEN x \in -128..127
    ELSE IF kind = "uint8" THEN x \in 0..255
    ELSE IF kind = "int16" THEN x \in -32768..32767
    ELSE IF kind = "uint16" THEN x \in 0..65535
    ELSE TRUE
Modulus(kind) ==
    IF kind \in {"int8", "uint8"} THEN 256
    ELSE IF kind \in {"int16", "uint16"} THEN 65536
    ELSE 0

\* C9: an increment that returns nil leaves in the map, under the same key
\* and with the same Expiration, an object of the same type whose value is
\* the old value plus the delta in the arithmetic of that type (modulo the
\* width of the type), and changes nothing else; a typed increment returns
\* that object.
C9_IncrementKeepsExpiration ==
    [][\A p \in Callers :
        (IncrementReturns(p) /\ loc'[p].res.err = "nil") =>
            LET k == loc[p].key
                old == items[k].Object
                new == items'[k].Object
                m == Modulus(old.kind)
            IN  /\ DOMAIN items' = DOMAIN items
                /\ items'[k].Expiration = items[k].Expiration
                /\ new.kind = old.kind
                /\ InType(new.kind, new.val)
                /\ IF m = 0 THEN new.val = old.val + loc[p].obj.val
                   ELSE (new.val - old.val - loc[p].obj.val) % m = 0
                /\ loc[p].op = "IncrementTyped" => loc'[p].res.obj = new]_vars

\* IncrementInt8(k1, 1) took the int8 127 to -128; the entry still expires at 2
C9_Witness ==
    /\ pc["t1"] = "ret" /\ loc["t1"].op = "IncrementTyped" /\ loc["t1"].res.err = "nil"
    /\ loc["t1"].res.obj = Num("int8", -128)
    /\ "k1" \in DOMAIN items /\ items["k1"] = Item(Num("int8", -128), 2)

\* ------------------------------------------------------- the other reads
\* the body of GetWithExpiration between RLock and RUnlock; exp 0 stands for
\* the zero time.Time{}
GetWithExpiration(its, key, t) ==
    IF key \notin DOMAIN its THEN Res("nil", FALSE, Nil, 0)
    ELSE IF its[key].Expiration > 0
         THEN IF t > its[key].Expiration
              THEN Res("nil", FALSE, Nil, 0)
              ELSE Res("nil", TRUE, its[key].Object, its[key].Expiration)
         ELSE Res("nil", TRUE, its[key].Object, 0)

\* a snapshot that copies every entry of the map, expired or not
ItemsUnfiltered(its, t) == its

\* the map Items builds: the entries that are not expired at its timestamp
Items(its, t) ==
    [k \in {j \in DOMAIN its : ~(its[j].Expiration > 0 /\ t > its[j].Expiration)} |-> its[k]]

\* len(c.items)
ItemCount(its) == Cardinality(DOMAIN its)

\* a returned map[string]Item as an object
Map(m) == [kind |-> "map", val |-> m]

GetWithExpirationRLock(p, key) ==
    /\ pc[p] = "idle"
    /\ CanRLock
    /\ mu' = [mu EXCEPT !.r = @ \cup {p}]
    /\ pc' = [pc EXCEPT ![p] = "GetWithExpiration_cs"]
    /\ loc' = [loc EXCEPT ![p] = [Blank EXCEPT !.op = "GetWithExpiration", !.key = key]]
    /\ UNCHANGED <<now, defaultExpiration, items, onEvicted, hist>>

GetWithExpirationRead(p) ==
    /\ pc[p] = "GetWithExpiration_cs"
    /\ mu' = [mu EXCEPT !.r = @ \ {p}]
    /\ pc' = [pc EXCEPT ![p] = "ret"]
    /\ loc' = [loc EXCEPT ![p].res = GetWithExpiration(items, loc[p].key, now)]
    /\ UNCHANGED <<now, defaultExpiration, items, onEvicted, hist>>

\* c.mu.RLock(); defer c.mu.RUnlock()
ItemsRLock(p) ==
    /\ pc[p] = "idle"
    /\ CanRLock
    /\ mu' = [mu EXCEPT !.r = @ \cup {p}]
    /\ pc' = [pc EXCEPT ![p] = "Items_cs"]
    /\ loc' = [loc EXCEPT ![p] = [Blank EXCEPT !.op = "Items"]]
    /\ UNCHANGED <<now, defaultExpiration, items, onEvicted, hist>>

\* now := time.Now().UnixNano(), the loop over c.items, return (and RUnlock);
\* the timestamp is kept in t0
ItemsCopy(p) ==
    /\ pc[p] = "Items_cs"
    /\ mu' = [mu EXCEPT !.r = @ \ {p}]
    /\ pc' = [pc EXCEPT ![p] = "ret"]
    /\ loc' = [loc EXCEPT ![p].t0 = now,
                          ![p].res = Res("nil", FALSE, Map(Items(items, now)), 0)]
    /\ UNCHANGED <<now, defaultExpiration, items, onEvicted, hist>>

ItemCountRLock(p) ==
    /\ pc[p] = "idle"
    /\ CanRLock
    /\ mu' = [mu EXCEPT !.r = @ \cup {p}]
    /\ pc' = [pc EXCEPT ![p] = "ItemCount_cs"]
    /\ loc' = [loc EXCEPT ![p] = [Blank EXCEPT !.op = "ItemCount"]]
    /\ UNCHANGED <<now, defaultExpiration, items, onEvicted, hist>>

ItemCountRead(p) ==
    /\ pc[p] = "ItemCount_cs"
    /\ mu' = [mu EXCEPT !.r = @ \ {p}]
    /\ pc' = [pc EXCEPT ![p] = "ret"]
    /\ loc' = [loc EXCEPT ![p].res = Res("nil", FALSE, Num("int", ItemCount(items)), 0)]
    /\ UNCHANGED <<now, defaultExpiration, items, onEvicted, hist>>

\* ------------------------------------------------- SpecRead: the reads
\* A cache made by NewForm with an entry k1 that expires after time 1 and an
\* entry k2 without expiration, with or without a collector.  Two callers
\* read with Get, GetWithExpiration, Items and ItemCount, and one of them
\* also writes: Set, Delete, DeleteExpired, Flush, OnEvicted.
SweepIntervals == {-1, 0, 1}
ReadItems == [k \in Keys |-> IF k = "k1" THEN Item(Str(1), 1) ELSE Item(Str(2), 0)]

InitRead == \E i \in SweepIntervals : InitWith(0, i, ReadItems, 1)

ReadStep(p) ==
    \/ \E k \in Keys : GetRLock(p, k)
    \/ GetRead(p)
    \/ \E k \in Keys : GetWithExpirationRLock(p, k)
    \/ GetWithExpirationRead(p)
    \/ ItemsRLock(p)
    \/ ItemsCopy(p)
    \/ ItemCountRLock(p)
    \/ ItemCountRead(p)
    \/ Return(p)

WriteStep(p) ==
    \/ \E d \in StoreDurations : SetCall(p, "k1", Str(3), d)
    \/ SetLock(p)
    \/ SetStore(p)
    \/ nRemoved < MaxRemovals /\ \E k \in Keys : DeleteLock(p, k)
    \/ DeleteBody(p)
    \/ DeleteNotify(p)
    \/ nRemoved < MaxRemovals /\ DeleteExpiredCall(p)
    \/ DeleteExpiredLock(p)
    \/ DeleteExpiredScan(p)
    \/ DeleteExpiredNotify(p)
    \/ CallbackRun(p)
    \/ OnEvictedLock(p, "f1")
    \/ OnEvictedStore(p)
    \/ FlushLock(p)
    \/ FlushStore(p)

NextRead ==
    \/ Tick
    \/ \E p \in Callers : ReadStep(p)
    \/ WriteStep("t2")
    \/ GCStep

SpecRead == InitRead /\ [][NextRead]_vars

\* a read that returns in this step
ItemsReturns(p) == pc[p] = "Items_cs" /\ pc'[p] = "ret"
ItemCountReturns(p) == pc[p] = "ItemCount_cs" /\ pc'[p] = "ret"
ReadCS == {"Get_cs", "GetWithExpiration_cs", "Items_cs", "ItemCount_cs"}

\* the entry of key k is in the map and has expired
ExpiredPresent(k) ==
    k \in DOMAIN items /\ items[k].Expiration > 0 /\ now > items[k].Expiration

\* --------------------------------------------------------------------- C11
\* C11: Items returns exactly the entries of the map whose keys Get would
\* report found at that instant, each as stored, and ItemCount returns the
\* number of entries in the map, expired ones included.
C11_SnapshotAndCount ==
    [][\A p \in Callers :
        /\ ItemsReturns(p) =>
              LET m == loc'[p].res.obj.val
              IN  /\ loc'[p].res.obj.kind = "map"
                  /\ DOMAIN m = {k \in DOMAIN items : Get(items, k, now).found}
                  /\ \A k \in DOMAIN m : m[k] = items[k]
        /\ ItemCountReturns(p) =>
              loc'[p].res.obj = Num("int", Cardinality(DOMAIN items))]_vars

\* without collector and without purge, after k1 expired: Items returned only
\* k2 to t1, ItemCount returned 2 to t2
C11_Witness ==
    /\ pc[GC] = "none"
    /\ items = ReadItems
    /\ now >= 2
    /\ pc["t1"] = "ret" /\ loc["t1"].op = "Items" /\ loc["t1"].t0 >= 2
    /\ DOMAIN loc["t1"].res.obj.val = {"k2"}
    /\ pc["t2"] = "ret" /\ loc["t2"].op = "ItemCount" /\ loc["t2"].res.obj = Num("int", 2)

\* --------------------------------------------------------------------- C15
\* C15: no step of Get, GetWithExpiration, Items or ItemCount (taking the
\* read lock, or reading and returning) changes the map, the callback or the
\* default expiration, or calls the callback; a Get or GetWithExpiration of
\* an expired entry reports not found and the entry stays in the map.
C15_ReadsChangeNothing ==
    [][\A p \in Callers :
        (pc'[p] # pc[p] /\ (pc[p] \in ReadCS \/ pc'[p] \in ReadCS)) =>
            /\ items' = items
            /\ onEvicted' = onEvicted
            /\ defaultExpiration' = defaultExpiration
            /\ nCalls' = nCalls
            /\ owed' = owed
            /\ (pc[p] \in {"Get_cs", "GetWithExpiration_cs"} /\ ExpiredPresent(loc[p].key)) =>
                  /\ ~loc'[p].res.found
                  /\ loc'[p].res.obj = Nil
                  /\ loc[p].key \in DOMAIN items']_vars

\* with a callback registered, GetWithExpiration of the expired k1 returned
\* not found to t1; the entry is in the map as NewForm stored it and the
\* callback was never called
C15_Witness ==
    /\ onEvicted = "f1"
    /\ nCalls = 0
    /\ pc["t1"] = "ret" /\ loc["t1"].op = "GetWithExpiration" /\ loc["t1"].key = "k1"
    /\ ~loc["t1"].res.found
    /\ "k1" \in DOMAIN items /\ items["k1"] = Item(Str(1), 1)

LockWaited == \E q \in Procs : pc[q] \in {"Set_lock", "DeleteExpired_lock"}

SweepStep(p) ==
    \/ \E v \in StoreValues, d \in StoreDurations : SetCall(p, "k1", v, d)
    \/ SetLock(p)
    \/ SetStore(p)
    \/ ~LockWaited /\ ItemCountRLock(p)
    \/ ItemCountRead(p)
    \/ Return(p)

NextSweep ==
    \/ Tick
    \/ \E p \in Callers : SweepStep(p)
    \/ TTLSweep

FairSweep ==
    /\ WF_vars(RunTick)
    /\ SF_vars(DeleteExpiredLock(GC))
    /\ WF_vars(DeleteExpiredScan(GC))
    /\ \A p \in Callers : WF_vars(SetStore(p)) /\ WF_vars(ItemCountRead(p))

SpecSweep == Init /\ [][NextSweep]_vars /\ FairSweep

\* --------------------------------------------------------------------- C12
\* C12: with the collector running, an entry that is in the map and has
\* expired does not stay so: it is eventually out of the map (or written
\* anew), whatever the callers do or do not do.
C12_SweeperReclaims ==
    \A k \in StoreKeys : ExpiredPresent(k) ~> ~ExpiredPresent(k)

\* k1, set at time 1 with ttl 1 and never deleted by a caller, is out of the
\* map; t2's ItemCount returned 0
C12_Witness ==
    /\ stamp["k1"] = Stamp(1, 1)
    /\ "k1" \notin DOMAIN items
    /\ pc[GC] = "select"
    /\ pc["t2"] = "ret" /\ loc["t2"].op = "ItemCount" /\ loc["t2"].res.obj = Num("int", 0)
    /\ pc["t1"] = "ret" /\ loc["t1"].op = "Set"

\* --------------------------------------------------------------------- C13
\* the entry an Add or Replace that is storing now must leave in the map
Fresh(p) == Item(loc[p].obj, IF loc[p].dur > 0 THEN now + loc[p].dur ELSE 0)

\* C13 (under SpecAdd): the lookup of Add ends with the "already exists"
\* error iff the key has an entry in the map that has not expired, and then
\* the map is as it was; otherwise Add keeps the lock and its next step puts
\* its value under the key, with the expiration counted from now (none for
\* NoExpiration), changes no other key and returns nil.
C13_AddFailsIffLive ==
    [][\A p \in Threads :
        LET k == loc[p].key
        IN  /\ (pc[p] = "Add_cs" /\ pc'[p] # "Add_cs") =>
                  /\ items' = items
                  /\ IF k \in DOMAIN items /\ ~ExpiredPresent(k)
                     THEN pc'[p] = "ret" /\ loc'[p].res.err = "AlreadyExists"
                     ELSE pc'[p] = "Add_set" /\ mu'.w = p
            /\ (pc[p] = "Add_set" /\ pc'[p] # "Add_set") =>
                  /\ pc'[p] = "ret" /\ loc'[p].res.err = "nil"
                  /\ DOMAIN items' = DOMAIN items \cup {k}
                  /\ items'[k] = Fresh(p)
                  /\ \A j \in DOMAIN items \ {k} : items'[j] = items[j]
            /\ (pc[p] = "Add_set" /\ pc'[p] = "Add_set") => items' = items]_vars

\* over the expired entry of NewForm t2 added its value at time 2 with ttl 1;
\* t1's Add then found it unexpired and got the error; t3 has not called
C13_Witness ==
    /\ "k1" \in DOMAIN items /\ items["k1"] = Item(Str(2), 3)
    /\ pc["t2"] = "ret" /\ loc["t2"].res.err = "nil"
    /\ pc["t1"] = "ret" /\ loc["t1"].res.err = "AlreadyExists"
    /\ pc["t3"] = "idle"

\* ---------------------------------------------- SpecReplace: Replace
\* A cache made by NewForm, empty or with an entry of k1 that expires after
\* time 2, without collector.  Two callers replace, set and delete k1 and
\* flush.
InitReplace ==
    \/ InitWith(0, 0, NoItems, 1)
    \/ InitWith(0, 0, [k \in {"k1"} |-> Item(Str(0), 2)], 1)

ReplaceStep(p) ==
    \/ \E d \in AddDurations : ReplaceLock(p, "k1", Own(p), d)
    \/ ReplaceGet(p)
    \/ ReplaceSet(p)
    \/ \E d \in AddDurations : SetCall(p, "k1", Str(3), d)
    \/ SetLock(p)
    \/ SetStore(p)
    \/ DeleteLock(p, "k1")
    \/ DeleteBody(p)
    \/ FlushLock(p)
    \/ FlushStore(p)
    \/ Return(p)

NextReplace ==
    \/ Tick
    \/ \E p \in Callers : ReplaceStep(p)

SpecReplace == InitReplace /\ [][NextReplace]_vars

\* --------------------------------------------------------------------- C14
\* C14: the lookup of Replace ends with the "not found" error iff the key has
\* no entry or its entry has expired, and then the map is as it was (the
\* expired entry included); otherwise Replace keeps the write lock, the map
\* does not change until its next step, and that step puts its value under
\* the key, still in the map, with the expiration counted from now, changes
\* no other key and returns nil.
C14_ReplaceFailsIffNotLive ==
    [][\A p \in Callers :
        LET k == loc[p].key
        IN  /\ (pc[p] = "Replace_cs" /\ pc'[p] # "Replace_cs") =>
                  /\ items' = items
                  /\ IF k \in DOMAIN items /\ ~ExpiredPresent(k)
                     THEN pc'[p] = "Replace_set" /\ mu'.w = p
                     ELSE pc'[p] = "ret" /\ loc'[p].res.err = "NotFound"
            /\ (pc[p] = "Replace_set" /\ pc'[p] # "Replace_set") =>
                  /\ pc'[p] = "ret" /\ loc'[p].res.err = "nil"
                  /\ k \in DOMAIN items
                  /\ DOMAIN items' = DOMAIN items
                  /\ items'[k] = Fresh(p)
                  /\ \A j \in DOMAIN items \ {k} : items'[j] = items[j]
            /\ (pc[p] = "Replace_set" /\ pc'[p] = "Replace_set") =>
                  items' = items /\ mu' = mu]_vars

\* t2 replaced the entry at time 1 with ttl 1; at time 3 t1's Replace did not
\* find it, and the expired entry is in the map as t2 stored it
C14_Witness ==
    /\ now = 3
    /\ pc["t2"] = "ret" /\ loc["t2"].op = "Replace" /\ loc["t2"].res.err = "nil"
    /\ pc["t1"] = "ret" /\ loc["t1"].op = "Replace" /\ loc["t1"].res.err = "NotFound"
    /\ "k1" \in DOMAIN items /\ items["k1"] = Item(Str(2), 2)

\* ------------------------------------- SpecSwap: replacing the callback
\* As Spec, but the callers register either of two functions and never nil.
SwapStep(p) ==
    \/ \E v \in StoreValues, d \in StoreDurations : SetCall(p, "k1", v, d)
    \/ SetLock(p)
    \/ SetStore(p)
    \/ Return(p)
    \/ nRemoved < MaxRemovals /\ Removing(p)
    \/ DeleteBody(p)
    \/ DeleteNotify(p)
    \/ DeleteExpiredLock(p)
    \/ DeleteExpiredScan(p)
    \/ DeleteExpiredNotify(p)
    \/ CallbackRun(p)
    \/ \E f \in Funcs : OnEvictedLock(p, f)
    \/ OnEvictedStore(p)

NextSwap ==
    \/ Tick
    \/ \E p \in Callers : SwapStep(p)
    \/ GCStep

SpecSwap == Init /\ [][NextSwap]_vars

\* --------------------------------------------------------------------- C16
\* C16 as stated: the function that Delete or DeleteExpired calls for a
\* removed entry is the one that was registered when the entry was removed.
C16_NotifiedToRegistered ==
    [][\A p \in Procs :
        (Notifying(p) /\ InCallback(p)') => onEvicted = loc[p].cb]_vars

\* --------------------------------------------------------------------- C18
\* C18 (under SpecStop): the collector is running (in its select or in a
\* DeleteExpired) until a stop signal is received, which happens in its
\* select and takes it to stopped; from then on it stays stopped, takes no
\* step, never has the lock, and no entry leaves the map (the callers of this
\* specification only set).
C18_StoppedIsTerminal ==
    /\ [][\A p \in Callers :
            (pc[p] = "Stop_send" /\ pc'[p] # "Stop_send") =>
                pc[GC] = "select" /\ pc'[GC] = "stopped"]_vars
    /\ [][(pc'[GC] = "stopped" /\ pc[GC] # "stopped") =>
            \E p \in Callers : pc[p] = "Stop_send" /\ pc'[p] = "ret"]_vars
    /\ [][pc[GC] = "stopped" =>
            /\ pc'[GC] = "stopped"
            /\ loc'[GC] = loc[GC]
            /\ mu'.w # GC
            /\ DOMAIN items \subseteq DOMAIN items']_vars

\* t1's stop signal was received; the entry set at time 1 with ttl 1 has
\* expired and is still in the map at the end of time
C18_Witness ==
    /\ pc[GC] = "stopped"
    /\ pc["t1"] = "ret" /\ loc["t1"].op = "Stop"
    /\ stamp["k1"] = Stamp(1, 1)
    /\ ExpiredPresent("k1")
    /\ now = MaxTime

\* ------------------------------------------- SpecHalt: one stop signal
\* A cache made by New(0, interval) with interval > 0.  The callers set and
\* delete k1 and register a callback, the collector purges and notifies, and
\* a caller signals stop while the collector runs and no other signal is
\* under way.
\* Scheduling: a goroutine that holds c.mu or runs a callback goes on (WF of
\* those steps); a goroutine waiting for c.mu is not starved (SF of the
\* collector's lock steps); the select of Run picks among its ready cases at
\* random, so a stop case that stays or keeps becoming ready is taken (SF of
\* RunStop).
HaltStep(p) ==
    \/ pc[GC] # "stopped" /\ (\A q \in Callers : pc[q] # "Stop_send") /\ StopSend(p)
    \/ RunStop(p)
    \/ \E v \in StoreValues, d \in StoreDurations : SetCall(p, "k1", v, d)
    \/ SetLock(p)
    \/ SetStore(p)
    \/ nRemoved < MaxRemovals /\ DeleteLock(p, "k1")
    \/ DeleteBody(p)
    \/ DeleteNotify(p)
    \/ CallbackRun(p)
    \/ OnEvictedLock(p, "f1")
    \/ OnEvictedStore(p)
    \/ Return(p)

NextHalt ==
    \/ Tick
    \/ \E p \in Callers : HaltStep(p)
    \/ GCStep

FairHalt ==
    /\ SF_vars(\E p \in Callers : RunStop(p))
    /\ SF_vars(DeleteExpiredLock(GC))
    /\ WF_vars(DeleteExpiredScan(GC))
    /\ WF_vars(DeleteExpiredNotify(GC))
    /\ SF_vars(CallbackRun(GC))
    /\ \A p \in Callers :
          WF_vars(SetStore(p)) /\ WF_vars(DeleteBody(p)) /\ WF_vars(OnEvictedStore(p))

SpecHalt == Init /\ [][NextHalt]_vars /\ FairHalt

\* --------------------------------------------------------------------- C19
\* C19: a caller that is sending the stop signal to the running collector
\* eventually has returned from the send, the collector having stopped;
\* wherever the collector is when the send begins: in its select, waiting
\* for the lock, inside the lock, or calling the callback.
C19_StopIsDelivered ==
    \A p \in Callers :
        pc[p] = "Stop_send" ~> (pc[p] = "ret" /\ loc[p].op = "Stop" /\ pc[GC] = "stopped")

\* t1's signal, sent while the collector was purging, has been received: the
\* collector made its callback call and stopped, t1 returned
C19_Witness ==
    /\ pc[GC] = "stopped"
    /\ pc["t1"] = "ret" /\ loc["t1"].op = "Stop"
    /\ onEvicted = "f1"
    /\ nCalls = 1
    /\ "k1" \notin DOMAIN items
    /\ stamp["k1"].set

\* ------------------------------------- the typed increments, step by step
\* IncrementInt and its siblings of the other types (the type is that of n,
\* kept with n in loc.obj), split into the lookup and the store.
IncrementIntLock(p, key, kind, n) ==
    /\ pc[p] = "idle"
    /\ CanLock
    /\ mu' = [mu EXCEPT !.w = p]
    /\ pc' = [pc EXCEPT ![p] = "IncrementInt_cs"]
    /\ loc' = [loc EXCEPT ![p] = [Blank EXCEPT !.op = "IncrementInt", !.key = key,
                                               !.obj = Num(kind, n)]]
    /\ UNCHANGED <<now, defaultExpiration, items, onEvicted, hist>>

\* an increment that gives the lock back between its lookup and its store
IncrementIntReadUnlocking(p) ==
    LET key == loc[p].key
        r == IncrementTyped(loc[p].obj.kind, StoredObject(p), loc[p].obj.val)
    IN  /\ pc[p] = "IncrementInt_cs"
        /\ mu' = Unlocked
        /\ IF key \notin DOMAIN items \/ Expired(items[key], now)
           THEN /\ pc' = [pc EXCEPT ![p] = "ret"]
                /\ loc' = [loc EXCEPT ![p].res = Res("NotFound", FALSE, Nil, 0)]
           ELSE IF ~r.ok
           THEN /\ pc' = [pc EXCEPT ![p] = "ret"]
                /\ loc' = [loc EXCEPT ![p].res = Res("TypeMismatch", FALSE, Nil, 0)]
           ELSE /\ pc' = [pc EXCEPT ![p] = "IncrementInt_store"]
                /\ loc' = [loc EXCEPT ![p].res = Res("-", TRUE, r.obj, items[key].Expiration)]
        /\ UNCHANGED <<now, defaultExpiration, items, onEvicted, hist>>

\* item, found := c.items[key]; the two error returns; value, ok :=
\* item.Object.(T); newValue := value + n; item.Object = newValue.  The local
\* item (its new Object and its Expiration) is kept in loc.res.
IncrementIntRead(p) ==
    LET key == loc[p].key
        r == IncrementTyped(loc[p].obj.kind, StoredObject(p), loc[p].obj.val)
    IN  /\ pc[p] = "IncrementInt_cs"
        /\ IF key \notin DOMAIN items \/ Expired(items[key], now)
           THEN /\ mu' = Unlocked
                /\ pc' = [pc EXCEPT ![p] = "ret"]
                /\ loc' = [loc EXCEPT ![p].res = Res("NotFound", FALSE, Nil, 0)]
           ELSE IF ~r.ok
           THEN /\ mu' = Unlocked
                /\ pc' = [pc EXCEPT ![p] = "ret"]
                /\ loc' = [loc EXCEPT ![p].res = Res("TypeMismatch", FALSE, Nil, 0)]
           ELSE /\ mu' = mu
                /\ pc' = [pc EXCEPT ![p] = "IncrementInt_store"]
                /\ loc' = [loc EXCEPT ![p].res = Res("-", TRUE, r.obj, items[key].Expiration)]
        /\ UNCHANGED <<now, defaultExpiration, items, onEvicted, hist>>

\* c.items[key] = item; Unlock; return newValue, nil
IncrementIntWrite(p) ==
    /\ pc[p] = "IncrementInt_store"
    /\ items' = set(items, loc[p].key, loc[p].res.obj, loc[p].res.exp)
    /\ mu' = Unlocked
    /\ pc' = [pc EXCEPT ![p] = "ret"]
    /\ loc' = [loc EXCEPT ![p].res = Res("nil", FALSE, loc[p].res.obj, 0)]
    /\ UNCHANGED <<now, defaultExpiration, onEvicted, hist>>

\* ------------------------------------------ SpecRace: racing increments
\* A cache made by NewForm with the int or int64 5 under k1, no expiration.
\* Three goroutines call IncrementInt or IncrementInt64 once each, with the
\* deltas 1, 2 and 4; a call of the other type than the stored one fails.
RaceStart == 5
RaceKinds == {"int", "int64"}
Delta(p) == IF p = "t1" THEN 1 ELSE IF p = "t2" THEN 2 ELSE 4

InitRace ==
    \E kind \in RaceKinds : InitWith(0, 0, [k \in {"k1"} |-> Item(Num(kind, RaceStart), 0)], 1)

NextRace ==
    \/ Tick
    \/ \E p \in Threads, kind \in RaceKinds : IncrementIntLock(p, "k1", kind, Delta(p))
    \/ \E p \in Threads : IncrementIntRead(p)
    \/ \E p \in Threads : IncrementIntWrite(p)

SpecRace == InitRace /\ [][NextRace]_vars

\* the increments that returned nil, the sum of the deltas of a set of
\* goroutines, and the goroutines whose deltas make up a returned value
Succeeded == {p \in Threads : pc[p] = "ret" /\ loc[p].res.err = "nil"}
DeltaSum(S) ==
    (IF "t1" \in S THEN Delta("t1") ELSE 0) + (IF "t2" \in S THEN Delta("t2") ELSE 0)
        + (IF "t3" \in S THEN Delta("t3") ELSE 0)
Before(p) == {q \in Threads : ((loc[p].res.obj.val - RaceStart) \div Delta(q)) % 2 = 1}

\* --------------------------------------------------------------------- C20
\* C20: at any moment the stored value is the initial value plus the deltas
\* of the increments that have returned nil, with its type and expiration
\* unchanged; the value each of them returned is the initial value plus the
\* deltas of a set of returned increments that includes its own, and these
\* sets are ordered by inclusion: the returned values are the distinct
\* intermediate values of one serial order.
C20_IncrementsAreAtomic ==
    /\ "k1" \in DOMAIN items
    /\ items["k1"].Expiration = 0
    /\ items["k1"].Object.kind \in RaceKinds
    /\ items["k1"].Object.val = RaceStart + DeltaSum(Succeeded)
    /\ \A p \in Succeeded :
          /\ loc[p].res.obj.kind = items["k1"].Object.kind
          /\ loc[p].res.obj.val = RaceStart + DeltaSum(Before(p))
          /\ p \in Before(p)
          /\ Before(p) \subseteq Succeeded
    /\ \A p, q \in Succeeded :
          /\ Before(p) \subseteq Before(q) \/ Before(q) \subseteq Before(p)
          /\ p # q => loc[p].res.obj.val # loc[q].res.obj.val

\* all three returned: t3 first (9), then t1 (10), then t2 (12), and 12 is stored
C20_Witness ==
    /\ \A p \in Threads : pc[p] = "ret"
    /\ loc["t3"].res.obj = Num("int", 9)
    /\ loc["t1"].res.obj = Num("int", 10)
    /\ loc["t2"].res.obj = Num("int", 12)
    /\ items["k1"] = Item(Num("int", 12), 0)

\* --------------------------------------------------------------------- C21
\* C21 as stated (under Spec): every step that reads c.onEvicted, to test it
\* (the removal inside Delete or DeleteExpired) or to call through it (the
\* notification), is made by a goroutine that holds c.mu, and c.onEvicted
\* changes only in a step of a goroutine that holds c.mu for writing.
C21_CallbackUnderLock ==
    [][/\ \A p \in Procs :
            /\ (pc[p] \in {"Delete_cs", "DeleteExpired_cs"} /\ pc'[p] # pc[p]) => mu.w = p
            /\ (Notifying(p) /\ pc'[p] # pc[p]) => Holding(p)
       /\ onEvicted' # onEvicted => \E q \in Procs : pc[q] = "OnEvicted_cs" /\ mu.w = q]_vars

\* --------------------------------------------------------------------- C28
\* C28 as stated (under Spec): no Delete or DeleteExpired calls through a nil
\* c.onEvicted, so no state is reached in which the process has panicked.
C28_NeverCallsNil ==
    \A p \in Procs : pc[p] # "panicked"

\* ------------------------------------------ SpecMutex: every operation at once
\* Two callers and the garbage collector use every operation of a cache made
\* by NewForm(0, 1, {k1: int 5 expiring at 2}); no callback is registered
\* (OnEvicted(nil)).
MutexStep(p) ==
    \/ SetCall(p, "k1", Num("int", 5), 1)
    \/ SetLock(p)
    \/ SetStore(p)
    \/ AddLock(p, "k1", Num("int", 5), 1)
    \/ AddGet(p)
    \/ AddSet(p)
    \/ ReplaceLock(p, "k1", Num("int", 5), 1)
    \/ ReplaceGet(p)
    \/ ReplaceSet(p)
    \/ DeleteLock(p, "k1")
    \/ DeleteBody(p)
    \/ DeleteExpiredCall(p)
    \/ DeleteExpiredLock(p)
    \/ DeleteExpiredScan(p)
    \/ FlushLock(p)
    \/ FlushStore(p)
    \/ OnEvictedLock(p, NilFunc)
    \/ OnEvictedStore(p)
    \/ ops < MaxOps /\ IncrementLock(p, "Increment", "k1", "int", 1)
    \/ IncrementBody(p)
    \/ ReadStep(p)

NextMutex ==
    \/ Tick
    \/ \E p \in Callers : MutexStep(p)
    \/ RunTick
    \/ DeleteExpiredLock(GC)
    \/ DeleteExpiredScan(GC)

SpecMutex ==
    /\ InitWith(0, 1, [k \in {"k1"} |-> Item(Num("int", 5), 2)], 1)
    /\ [][NextMutex]_vars

\* --------------------------------------------------------------------- C22
\* C22: in every reachable state, a goroutine inside the critical section of
\* Set, Add, Replace, Delete, DeleteExpired, Flush, OnEvicted or an increment
\* holds c.mu for writing and no other goroutine, caller or collector, is
\* inside any critical section; a goroutine inside the critical section of
\* Get, GetWithExpiration, Items or ItemCount holds c.mu for reading, and
\* nobody holds it for writing (other readers may be inside theirs).
C22_MutualExclusion ==
    \A p \in Procs :
        /\ (InCriticalSection(p) /\ pc[p] \notin ReadCS) =>
              /\ mu = [w |-> p, r |-> {}]
              /\ \A q \in Procs \ {p} : ~InCriticalSection(q)
        /\ pc[p] \in ReadCS =>
              /\ mu.w = NoProc /\ p \in mu.r
              /\ \A q \in Procs \ {p} : InCriticalSection(q) => pc[q] \in ReadCS
        /\ Holding(p) => InCriticalSection(p)

\* two readers are inside their critical sections at once, while the
\* collector waits for the lock
C22_Witness ==
    /\ pc["t1"] = "Get_cs"
    /\ pc["t2"] = "Items_cs"
    /\ mu = [w |-> NoProc, r |-> {"t1", "t2"}]
    /\ pc[GC] = "DeleteExpired_lock"

\* ------------------------------------------------ SpecPolicy: the default ttl
\* Caches made by New(d, 0) with a negative, a zero and a positive default
\* duration d; two callers Set, Add and Replace one key with
\* DefaultExpiration, with NoExpiration and with a ttl of their own, and read
\* it back, while the clock advances.
PolicyStep(p) ==
    \/ \E d \in {DefaultExpiration, NoExpiration, 1} : SetCall(p, "k1", Str(1), d)
    \/ SetLock(p)
    \/ SetStore(p)
    \/ \E d \in {DefaultExpiration, NoExpiration, 1} : AddLock(p, "k1", Str(2), d)
    \/ AddGet(p)
    \/ AddSet(p)
    \/ \E d \in {DefaultExpiration, NoExpiration, 1} : ReplaceLock(p, "k1", Str(3), d)
    \/ ReplaceGet(p)
    \/ ReplaceSet(p)
    \/ GetRLock(p, "k1")
    \/ GetRead(p)
    \/ Return(p)

NextPolicy ==
    \/ Tick
    \/ \E p \in Callers : PolicyStep(p)

SpecPolicy ==
    /\ \E d \in {-2, 0, 2} : InitWith(d, 0, NoItems, 1)
    /\ [][NextPolicy]_vars

\* --------------------------------------------------------------------- C23
\* C23: a cache constructed with a positive default duration keeps it, one
\* constructed with a zero or negative default keeps a negative one, and no
\* step changes c.defaultExpiration; the entry stored by Set, Add or Replace
\* with duration d has Expiration t + ttl if ttl > 0 and 0 (never expires)
\* otherwise, where ttl is c.defaultExpiration if d = DefaultExpiration and d
\* otherwise, and t is the time the operation read the clock; so
\* NoExpiration gives 0 whatever the default is, DefaultExpiration gives 0 in
\* a cache whose default is not positive, and an entry with Expiration 0 is
\* found by Get at every time.
C23_TTLPolicy ==
    /\ \A d \in {-2, 0, 2} :
          InitWith(d, 0, NoItems, 1) =>
              IF d > 0 THEN defaultExpiration = d ELSE defaultExpiration < 0
    /\ [][defaultExpiration' = defaultExpiration]_vars
    /\ [][\A p \in Callers :
            LET k == loc[p].key
                d == loc[p].dur
                t == IF pc[p] = "Set_cs" THEN loc[p].t0 ELSE now
                ttl == IF d = DefaultExpiration THEN defaultExpiration ELSE d
            IN  (pc[p] \in {"Set_cs", "Add_set", "Replace_set"} /\ pc'[p] = "ret") =>
                    /\ k \in DOMAIN items'
                    /\ items'[k] = Item(loc[p].obj, IF ttl > 0 THEN t + ttl ELSE 0)
                    /\ d = NoExpiration => items'[k].Expiration = 0
                    /\ (d = DefaultExpiration /\ defaultExpiration <= 0) =>
                           items'[k].Expiration = 0]_vars
    /\ [](\A k \in DOMAIN items :
            items[k].Expiration = 0 => Get(items, k, now).found)

\* in the cache constructed with default duration 0, an entry set with
\* DefaultExpiration is still found at the last instant
C23_Witness ==
    /\ defaultExpiration = -1
    /\ stamp["k1"] = Stamp(1, DefaultExpiration)
    /\ "k1" \in DOMAIN items /\ items["k1"] = Item(Str(1), 0)
    /\ now = MaxTime
    /\ pc["t2"] = "ret" /\ loc["t2"].op = "Get" /\ loc["t2"].res.found

\* --------------------------------------------------------------------- C24
\* C24 (under SpecRead): the scan of DeleteExpired, made under the lock with
\* the timestamp t0 the purge read when it started, removes exactly the
\* entries that had expired at t0: each of them is out of the map after the
\* scan and was expired at the time of the scan too, every other entry is
\* still in the map with the same value and Expiration, and no key is added.
C24_PurgeIsExact ==
    [][\A p \in Procs :
        (pc[p] = "DeleteExpired_cs" /\ pc'[p] # pc[p]) =>
            /\ DOMAIN items' \subseteq DOMAIN items
            /\ \A k \in DOMAIN items :
                  IF items[k].Expiration > 0 /\ loc[p].t0 > items[k].Expiration
                  THEN k \notin DOMAIN items' /\ ExpiredPresent(k)
                  ELSE k \in DOMAIN items' /\ items'[k] = items[k]]_vars

\* a caller's purge has just removed the expired k1, which it is about to
\* notify, and has kept k2, which never expires
C24_Witness ==
    /\ pc["t2"] = "DeleteExpired_notify"
    /\ loc["t2"].ev = {Pair("k1", Str(1))}
    /\ items = [k \in {"k2"} |-> Item(Str(2), 0)]
    /\ now > 1

C25_DeleteRemoves ==
    [][\A p \in Callers :
        LET k == loc[p].key
        IN  /\ (pc[p] = "Delete_cs" /\ pc'[p] # pc[p]) =>
                  /\ items' = [j \in DOMAIN items \ {k} |-> items[j]]
                  /\ k \notin DOMAIN items =>
                        /\ items' = items
                        /\ pc'[p] = "ret"
                        /\ UNCHANGED evhist
                  /\ IF k \in DOMAIN items /\ onEvicted # NilFunc
                     THEN /\ pc'[p] = "Delete_notify"
                          /\ loc'[p].ev = {Pair(k, items[k].Object)}
                     ELSE pc'[p] = "ret"
                  /\ nCalls' = nCalls
            /\ (pc[p] = "Delete_notify" /\ pc'[p] # pc[p]) =>
                  /\ nCalls' = nCalls + 1
                  /\ pc'[p] = "Delete_incb" /\ loc'[p].ev = {}
            /\ (pc[p] = "Delete_incb" /\ pc'[p] # pc[p]) =>
                  /\ nCalls' = nCalls
                  /\ pc'[p] = "ret"]_vars

\* Delete has removed k1, which had expired, and is about to notify it
C25_Witness ==
    /\ pc["t2"] = "Delete_notify"
    /\ loc["t2"].ev = {Pair("k1", Str(1))}
    /\ "k1" \notin DOMAIN items
    /\ now > 1

\* ----------------------------------------------- SpecLock: the error returns
\* A cache made by NewForm(0, 1, {k1: "1" expiring at 2}). One caller uses
\* Add, Replace and the increments on k1: Add finds the key, Replace and the
\* increments miss it once it has expired, and the increments find a string.
\* The other caller Sets and Gets the key, and the collector purges. A
\* goroutine that holds c.mu goes on to release it; a goroutine waiting in
\* c.mu.Lock() gets the lock when it is free again and again, and keeps later
\* readers out until then.
LockStep(p) ==
    \/ AddLock(p, "k1", Str(2), 1)
    \/ AddGet(p)
    \/ AddSet(p)
    \/ ReplaceLock(p, "k1", Str(3), NoExpiration)
    \/ ReplaceGet(p)
    \/ ReplaceSet(p)
    \/ ops < MaxOps /\ IncrementLock(p, "Increment", "k1", "int", 1)
    \/ IncrementBody(p)
    \/ ops < MaxOps /\ IncrementLock(p, "IncrementFloat", "k1", "float64", 1)
    \/ IncrementFloatBody(p)
    \/ ops < MaxOps /\ IncrementLock(p, "IncrementTyped", "k1", "int", 1)
    \/ IncrementTypedBody(p)
    \/ Return(p)

NextLock ==
    \/ Tick
    \/ LockStep("t1")
    \/ SetCall("t2", "k1", Num("int", 5), 1)
    \/ SetLock("t2")
    \/ SetStore("t2")
    \/ ~LockWaited /\ GetRLock("t2", "k1")
    \/ GetRead("t2")
    \/ Return("t2")
    \/ RunTick
    \/ DeleteExpiredLock(GC)
    \/ DeleteExpiredScan(GC)

SpecLock ==
    /\ InitWith(0, 1, [k \in {"k1"} |-> Item(Str(1), 2)], 1)
    /\ [][NextLock]_vars
    /\ SF_vars(DeleteExpiredLock(GC))
    /\ WF_vars(DeleteExpiredScan(GC))
    /\ SF_vars(SetLock("t2"))
    /\ WF_vars(SetStore("t2") \/ GetRead("t2"))
    /\ WF_vars(AddGet("t1") \/ AddSet("t1") \/ ReplaceGet("t1") \/ ReplaceSet("t1")
               \/ IncrementBody("t1") \/ IncrementFloatBody("t1") \/ IncrementTypedBody("t1"))

\* --------------------------------------------------------------------- C26
\* C26: a goroutine that is not inside an operation holds no lock, whatever
\* the operation returned (nil or an error), so c.mu is free whenever no
\* operation is in progress; whoever holds c.mu is inside a critical
\* section; and every operation in progress, waiting for the lock or holding
\* it, eventually returns.
C26_LockIsReleased ==
    /\ [](\A p \in Procs : AtRest(p) => ~Holding(p))
    /\ [](Quiet => mu = Unlocked)
    /\ [](\A p \in Procs : Holding(p) => InCriticalSection(p))
    /\ \A p \in Procs : (~AtRest(p)) ~> AtRest(p)

\* Add is back from its error return, Get has returned, and the lock is free
C26_Witness ==
    /\ pc["t1"] = "ret" /\ loc["t1"].op = "Add" /\ loc["t1"].res.err = "AlreadyExists"
    /\ pc["t2"] = "ret" /\ loc["t2"].op = "Get" /\ loc["t2"].res.found
    /\ pc[GC] = "select"
    /\ mu = Unlocked

\* ------------------------------------------- SpecUniform: one entry, every test
\* A cache made by NewForm(0, 0, {k1: Item{Object: 5, Expiration: e}}) with a
\* negative, a zero and a positive e; two callers look the key up, Add and
\* Replace it, increment it and purge, while the clock advances.
UniformStep(p) ==
    \/ GetRLock(p, "k1")
    \/ GetRead(p)
    \/ GetWithExpirationRLock(p, "k1")
    \/ GetWithExpirationRead(p)
    \/ ItemsRLock(p)
    \/ ItemsCopy(p)
    \/ AddLock(p, "k1", Num("int", 5), NoExpiration)
    \/ AddGet(p)
    \/ AddSet(p)
    \/ ReplaceLock(p, "k1", Num("int", 5), 1)
    \/ ReplaceGet(p)
    \/ ReplaceSet(p)
    \/ ops < MaxOps /\ IncrementLock(p, "IncrementTyped", "k1", "int", 1)
    \/ IncrementTypedBody(p)
    \/ DeleteExpiredCall(p)
    \/ DeleteExpiredLock(p)
    \/ DeleteExpiredScan(p)
    \/ Return(p)

NextUniform ==
    \/ Tick
    \/ \E p \in Callers : UniformStep(p)

SpecUniform ==
    /\ \E e \in {-1, 0, 2} : InitWith(0, 0, [k \in {"k1"} |-> Item(Num("int", 5), e)], 1)
    /\ [][NextUniform]_vars

\* --------------------------------------------------------------------- C27
\* C27 as stated: whatever Expiration the entry of a key has, every operation
\* that looks at the key in a state gives the verdict of Get in that state:
\* GetWithExpiration and Items report the key exactly when Get finds it, Add
\* returns its error exactly when Get finds it, Replace goes on to store
\* exactly when Get finds it, an increment returns 'not found' exactly when
\* Get does not find it, and a purge that read the clock in that state
\* removes the entry exactly when Get does not find it.
C27_SameExpiryTest ==
    [][\A p \in Callers :
        LET found == Get(items, "k1", now).found
        IN  /\ (pc[p] = "GetWithExpiration_cs" /\ pc'[p] = "ret") =>
                  (loc'[p].res.found <=> found)
            /\ ItemsReturns(p) => ("k1" \in DOMAIN loc'[p].res.obj.val <=> found)
            /\ (pc[p] = "Add_cs" /\ pc'[p] # pc[p]) => (pc'[p] = "ret" <=> found)
            /\ (pc[p] = "Replace_cs" /\ pc'[p] # pc[p]) => (pc'[p] = "Replace_set" <=> found)
            /\ IncrementReturns(p) => (loc'[p].res.err = "NotFound" <=> ~found)
            /\ (pc[p] = "DeleteExpired_cs" /\ pc'[p] # pc[p] /\ loc[p].t0 = now) =>
                  ("k1" \in DOMAIN items' <=> found)]_vars

\* --------------------------------------- SpecOverwrite: writing over the expired
\* A cache made by NewForm(0, 0, {k1: "0" expiring at 1}). Two callers
\* register the callback f1, Add and Set the key, and, once the callback is
\* registered, Delete it and purge; the clock advances, so the first entry
\* expires and may be written over before anything removes it.
OverwriteStep(p) ==
    \/ OnEvictedLock(p, "f1")
    \/ OnEvictedStore(p)
    \/ AddLock(p, "k1", Str(1), 1)
    \/ AddGet(p)
    \/ AddSet(p)
    \/ SetCall(p, "k1", Str(2), 1)
    \/ SetLock(p)
    \/ SetStore(p)
    \/ onEvicted # NilFunc /\ nRemoved < MaxRemovals /\ DeleteLock(p, "k1")
    \/ DeleteBody(p)
    \/ DeleteNotify(p)
    \/ onEvicted # NilFunc /\ nRemoved < MaxRemovals /\ DeleteExpiredCall(p)
    \/ DeleteExpiredLock(p)
    \/ DeleteExpiredScan(p)
    \/ DeleteExpiredNotify(p)
    \/ CallbackRun(p)
    \/ Return(p)

NextOverwrite ==
    \/ Tick
    \/ \E p \in Callers : OverwriteStep(p)

SpecOverwrite ==
    /\ InitWith(0, 0, [k \in {"k1"} |-> Item(Str(0), 1)], 1)
    /\ [][NextOverwrite]_vars

\* --------------------------------------------------------------------- C30
\* C30: the step of Add or Set that stores an entry, over an expired entry
\* or not, notifies nothing: the operation returns at once, the callback is
\* not called and no notification becomes due; and the callback is only
\* ever called with a pair that Delete or DeleteExpired took out of the map
\* and that has not been notified yet. So an expired entry that is written
\* over before a Delete or a purge removes it is never reported.
C30_OverwriteIsSilent ==
    /\ [][\A p \in Callers :
            (pc[p] \in {"Set_cs", "Add_set"} /\ pc'[p] # pc[p]) =>
                /\ pc'[p] = "ret"
                /\ UNCHANGED evhist]_vars
    /\ [](~misfire)
    /\ [](nCalls <= nRemoved)

\* with f1 registered and nothing removed so far, Add has succeeded: it wrote
\* over the first entry, which had expired, and no callback was called
C30_Witness ==
    /\ onEvicted = "f1"
    /\ nRemoved = 0 /\ nCalls = 0
    /\ pc["t1"] = "ret" /\ loc["t1"].op = "Add" /\ loc["t1"].res.err = "nil"
    /\ items = [k \in {"k1"} |-> Item(Str(1), stamp["k1"].t + 1)]
    /\ Quiet

====
